---- MODULE Spec2Model ----
(***************************************************************************)
(* TaskConfigurations (packages/task/src/browser/task-configurations.ts):  *)
(* watches <root>/.theia/tasks.json, keeps a label -> task map parsed from *)
(* it and notifies one client.  Every `await` of the source is a           *)
(* suspension point: the part of a method up to its next await is one      *)
(* action, and the continuations of the calls in flight interleave freely. *)
(***************************************************************************)
EXTENDS Naturals, Integers, Sequences, FiniteSets, Bags, TLC

\* ------------------------------------------------------------------ bounds
MaxOps        == 3      \* calls of the component's methods, change batches delivered,
                        \* file changes and failed I/O requests, in one behaviour
MaxBatch      == 1      \* change records in one delivered batch
MaxDupLen     == 3      \* tasks in the "tasks" array of a file that is refreshed alone

\* ------------------------------------------------------- values and inputs
Undefined == <<>>                     \* the unset watchedConfigFileUri
NoClient  == "undefined"              \* the unset client
TASKFILEPATH == ".theia"
TASKFILE     == "tasks.json"

Roots == {"r1", "r2"}

\* new URI(rootDir).resolve(TASKFILEPATH).resolve(TASKFILE).toString()
getConfigFileUri(rootDir) == <<rootDir, TASKFILEPATH, TASKFILE>>

Paths == {getConfigFileUri(r) : r \in Roots}

\* FileChangeType of filesystem-watcher-protocol
UPDATED == "UPDATED"
ADDED   == "ADDED"
DELETED == "DELETED"
FileChangeTypes == {UPDATED, ADDED, DELETED}

FileChanges == [uri : Paths, type : FileChangeTypes]

RECURSIVE SeqsUpTo(_, _)
SeqsUpTo(S, n) ==
    IF n = 0 THEN {<<>>}
    ELSE LET shorter == SeqsUpTo(S, n - 1)
         IN  shorter \cup {Append(s, x) : s \in {t \in shorter : Len(t) = n - 1}, x \in S}

Batches == SeqsUpTo(FileChanges, MaxBatch) \ {<<>>}

\* TaskOptions: a label plus opaque further fields
Task(l, c) == [label |-> l, command |-> c]

\* What a file holds, given by what jsoncparser.parse makes of it: the number of
\* syntax errors it collects and, with none, the parsed value.  A parsed value is
\* an object or not; the value at its key "tasks" has a kind and, for the
\* iterable kinds (array, string), the sequence a for-of loop walks.
JsonValue(isObj, kind, items) == [isObject |-> isObj, kind |-> kind, items |-> items]
File(n, v)  == [exists |-> TRUE, errors |-> n, value |-> v]
NoFile      == [exists |-> FALSE, errors |-> 0, value |-> JsonValue(FALSE, "undefined", <<>>)]
TasksFile(ts) == File(0, JsonValue(TRUE, "array", ts))
BadFile     == File(1, JsonValue(TRUE, "array", <<Task("a", "x")>>))

GoodA     == TasksFile(<<Task("a", "x")>>)
GoodDup   == TasksFile(<<Task("b", "x"), Task("a", "y"), Task("b", "y")>>)

FileStates == {NoFile, BadFile, GoodA, GoodDup}

\* the files a single refresh is run on: every "tasks" array of up to MaxDupLen
\* tasks, and the contents that parse without a task sequence at "tasks"
Labels   == {"a", "b"}
Commands == {"x", "y"}
Tasks    == {Task(l, c) : l \in Labels, c \in Commands}
Char(c)  == [char |-> c]              \* what for-of gives for a string: its characters
Null     == [null |-> TRUE]           \* the JSON value null: reading a property of it throws

\* what an element of a "tasks" array can be: a task, a task labelled with the
\* string "undefined", an object without label, null
Elements == Tasks \cup {Task("undefined", "x"), [command |-> "y"], Null}

ArrayFiles == {TasksFile(ts) : ts \in SeqsUpTo(Elements, MaxDupLen)}
ShapeFiles ==
    {File(0, JsonValue(TRUE, "undefined", <<>>)),       \* {}
     File(0, JsonValue(TRUE, "null", <<>>)),            \* {"tasks": null}
     File(0, JsonValue(TRUE, "number", <<>>)),          \* {"tasks": 7}
     File(0, JsonValue(TRUE, "object", <<>>)),          \* {"tasks": {}}
     File(0, JsonValue(TRUE, "string", <<>>)),          \* {"tasks": ""}
     File(0, JsonValue(TRUE, "string", <<Char("m"), Char("k")>>))}   \* {"tasks": "mk"}
Contents == ArrayFiles \cup ShapeFiles \cup {NoFile, BadFile}

\* ------------------------------------------------------------- pure parts
\* A label as a value of the program: the string s is <<s>>, undefined is <<>>
\* (undefined !== "undefined", and a Map tells the two keys apart).
Label(s) == <<s>>
NoLabel  == <<>>

\* task.label of a value that is not null: undefined for a value that has no
\* such property (for null the read throws: the callers look at Null first)
LabelOf(t) == IF "label" \in DOMAIN t THEN Label(t.label) ELSE NoLabel

\* filteredTasks.some(t => t.label === task.label), line 180: the callback is
\* run on the kept tasks in order up to the first match; it reads t.label, then
\* task.label, and either read throws a TypeError on null
RECURSIVE some(_, _)
some(filteredTasks, task) ==
    IF filteredTasks = <<>> THEN "false"
    ELSE IF Head(filteredTasks) = Null \/ task = Null THEN "throw"
    ELSE IF LabelOf(Head(filteredTasks)) = LabelOf(task) THEN "true"
    ELSE some(Tail(filteredTasks), task)

\* filterDuplicates: the tasks kept, one error logged per task dropped, and
\* whether the walk ended in a TypeError
RECURSIVE filterDuplicatesFrom(_, _, _)
filterDuplicatesFrom(tasks, filteredTasks, errors) ==
    IF tasks = <<>> THEN [tasks |-> filteredTasks, errors |-> errors, thrown |-> FALSE]
    ELSE LET task == Head(tasks)
             found == some(filteredTasks, task)
         IN  IF found = "throw"
             THEN [tasks |-> filteredTasks, errors |-> errors, thrown |-> TRUE]
             ELSE IF found = "true"
             THEN filterDuplicatesFrom(Tail(tasks), filteredTasks, errors + 1)
             ELSE filterDuplicatesFrom(Tail(tasks), Append(filteredTasks, task), errors)

filterDuplicatesKeepsAll(tasks) == [tasks |-> tasks, errors |-> 0, thrown |-> FALSE]

filterDuplicates(tasks) == filterDuplicatesFrom(tasks, <<>>, 0)

\* The result of readTasks once the content is there: defined (an array, always
\* truthy) or undefined, and the number of errors logged on the way.
NoResult(why, n)  == [defined |-> FALSE, tasks |-> <<>>, why |-> why, errors |-> n]

parseTasks(file) ==
    IF file.errors > 0 THEN NoResult("syntax", file.errors)
    ELSE IF ~file.value.isObject \/ file.value.kind \notin {"array", "string"}
         THEN NoResult("shape", 1)         \* TypeError, caught at line 171
         ELSE LET f == filterDuplicates(file.value.items)
              IN  IF f.thrown
                  THEN NoResult("shape", f.errors + 1)    \* TypeError, caught at line 171
                  ELSE [defined |-> TRUE, tasks |-> f.tasks, why |-> "parsed",
                        errors |-> f.errors]

\* Map.set: a present key keeps its place and takes the new value
MapSet(map, key, val) ==
    IF \E i \in 1..Len(map) : map[i][1] = key
    THEN [i \in 1..Len(map) |-> IF map[i][1] = key THEN <<key, val>> ELSE map[i]]
    ELSE Append(map, <<key, val>>)

\* the loop of lines 146-148: tasksMap.set(task.label, task) for each task in
\* turn; on null the read of task.label throws and ends the loop, and what was
\* set before stays
RECURSIVE MapSetAll(_, _)
MapSetAll(map, tasks) ==
    IF tasks = <<>> \/ Head(tasks) = Null THEN map
    ELSE MapSetAll(MapSet(map, LabelOf(Head(tasks)), Head(tasks)), Tail(tasks))

\* the loop throws: the TypeError leaves refreshTasks, whose promise no caller
\* awaits or catches
refreshTasksThrows(result) ==
    result.defined /\ \E i \in 1..Len(result.tasks) : result.tasks[i] = Null

\* the map refreshTasks leaves once readTasks has answered (lines 139-149): with
\* a result the map is cleared (line 144), then the loop runs
refreshTasksClearsFirst(map, result) ==
    IF result.defined THEN MapSetAll(<<>>, result.tasks) ELSE <<>>

refreshTasksFirstOnly(map, result) ==
    IF result.defined
    THEN IF result.tasks = <<>> THEN <<>>
         ELSE MapSet(<<>>, LabelOf(Head(result.tasks)), Head(result.tasks))
    ELSE map

refreshTasksSetsOnly(map, result) ==
    IF result.defined THEN MapSetAll(map, result.tasks) ELSE map

refreshTasksApply(map, result) ==
    IF result.defined THEN MapSetAll(<<>>, result.tasks) ELSE map

getTaskLabelsOf(map) == [i \in 1..Len(map) |-> map[i][1]]

\* getTask(taskLabel: string): the task at that key, <<>> for undefined
getTaskOf(map, taskLabel) ==
    IF \E i \in 1..Len(map) : map[i][1] = Label(taskLabel)
    THEN LET i == CHOOSE j \in 1..Len(map) : map[j][1] = Label(taskLabel)
         IN  <<map[i][2]>>
    ELSE <<>>

\* ------------------------------------------------------------------ state
VARIABLES
    tasksMap,               \* Map<string, TaskOptions>: <<label, task>> in insertion order
    watchedConfigFileUri,   \* the watched path, Undefined until the first call
    client,                 \* the registered TaskConfigurationClient or NoClient
    toDispose,              \* the disposables pushed and not yet disposed
    fs,                     \* file system: path -> what the file holds
    watchPaths,             \* watch service: watchPaths[h] is the path of handle h
    watchLate,              \* watchLate[h]: handle h was asked for after dispose()
    unwatchCount,           \* watch service: unwatchFileChanges calls per handle
    serverDisposed,         \* watch service: dispose() was called on it
    calls,                  \* watchConfigurationFile calls in flight, a bag
    refreshes,              \* refreshTasks calls in flight, a bag
    handlers,               \* onDidFilesChanged handlers in flight
    nOps,                   \* method calls, change batches, file changes and failed
                            \* I/O requests so far
    disposed,               \* dispose() has been called
    regLog,                 \* the paths given to watchFileChanges, in call order
    out                     \* what the last step gave its caller or the client

vars == <<tasksMap, watchedConfigFileUri, client, toDispose, fs, watchPaths,
          watchLate, unwatchCount, serverDisposed, calls, refreshes, handlers,
          nOps, disposed, regLog, out>>

program == <<tasksMap, watchedConfigFileUri, client, toDispose>>
service == <<watchPaths, watchLate, unwatchCount, serverDisposed>>
history == <<nOps, disposed, regLog>>

getTaskLabels == getTaskLabelsOf(tasksMap)
getTask(taskLabel) == getTaskOf(tasksMap, taskLabel)

Disposable(kind, watchId) == [kind |-> kind, watchId |-> watchId]

Silent == [op |-> "none"]

\* calls in flight that are at the same point with the same locals are told
\* apart by their number only
One(x) == SetToBag({x})
Without(bag, x) == bag (-) One(x)
With(bag, x) == bag (+) One(x)

\* the name of a new call in flight: the least one no call in flight has
FreshId(procs) == CHOOSE i \in 1..(Cardinality(procs) + 1) :
                      /\ \A q \in procs : q.id # i
                      /\ \A j \in 1..(i - 1) : \E q \in procs : q.id = j

\* constructor (lines 42-69)
Init ==
    /\ tasksMap = <<>>
    /\ watchedConfigFileUri = Undefined
    /\ client = NoClient
    /\ toDispose = <<Disposable("watcherServer", 0), Disposable("clear", 0)>>
    /\ fs = [p \in Paths |-> IF p = getConfigFileUri("r1") THEN GoodA ELSE NoFile]
    /\ watchPaths = <<>>
    /\ watchLate = <<>>
    /\ unwatchCount = <<>>
    /\ serverDisposed = FALSE
    /\ calls = EmptyBag
    /\ refreshes = EmptyBag
    /\ handlers = {}
    /\ nOps = 0
    /\ disposed = FALSE
    /\ regLog = <<>>
    /\ out = Silent

\* refreshTasks up to its first await: readTasks(this.watchedConfigFileUri) calls
\* fileSystem.exists(uri) and suspends (lines 138, 154)
refreshUri(watched, configFile) == watched

\* handler: the change handler in flight that started the refresh, 0 for none;
\* stale: the refresh holds tasks it has read, and since then a deletion of its
\* file was handled or a refresh that read the file's present content completed
NewRefresh(uri, handler) ==
    [uri |-> uri, pc |-> "exists", result |-> NoResult("pending", 0), handler |-> handler,
     stale |-> FALSE]

\* the refreshes in flight, those that hold tasks read from uri and satisfy
\* Overtaken now marked stale
HoldsTasksOf(r, uri) == r.uri = uri /\ r.pc = "return" /\ r.result.defined

MarkStale(bag, uri, present) ==
    LET mark(r) == IF HoldsTasksOf(r, uri) /\ r.result # present
                   THEN [r EXCEPT !.stale = TRUE] ELSE r
        count(q, r) == IF r \in DOMAIN bag /\ mark(r) = q THEN bag[r] ELSE 0
    IN  [q \in {mark(r) : r \in BagToSet(bag)} |->
            count(q, [q EXCEPT !.stale = FALSE]) + count(q, [q EXCEPT !.stale = TRUE])]

\* ------------------------------------------------- watchConfigurationFile
\* the slot after line 86
watchedAfterCheckStale(watched, configFile) == watched

watchedAfterCheck(watched, configFile) == configFile

\* lines 84-87 (a different path: up to the await of watchFileChanges) or
\* lines 84-85, 93 (the same path: up to the await of exists)
WatchConfigurationFile(rootUri) ==
    /\ nOps < MaxOps
    /\ nOps' = nOps + 1
    /\ LET configFile == getConfigFileUri(rootUri)
           differs == watchedConfigFileUri # configFile
           call == [rootUri |-> rootUri, configFile |-> configFile,
                    pc |-> IF differs THEN "watchFileChanges" ELSE "exists",
                    registration |-> IF differs THEN "pending" ELSE "skipped",
                    refreshed |-> 0, refreshUri |-> Undefined,
                    late |-> disposed, missing |-> ~fs[configFile].exists]
       IN  /\ watchedConfigFileUri' =
                 IF differs THEN watchedAfterCheck(watchedConfigFileUri, configFile)
                 ELSE watchedConfigFileUri
           /\ regLog' = IF differs THEN Append(regLog, configFile) ELSE regLog
           /\ calls' = With(calls, call)
    /\ out' = Silent
    /\ UNCHANGED <<tasksMap, client, toDispose, fs, service, refreshes, handlers, disposed>>

\* lines 87-93: the watch service answers with a handle; the disposable is
\* pushed, refreshTasks() is started and not awaited, exists(configFile) is called
WatchFileChangesResolved(c) ==
    /\ c.pc = "watchFileChanges"
    /\ LET watchId == Len(watchPaths) + 1
           uri == refreshUri(watchedConfigFileUri, c.configFile)
       IN  /\ watchPaths' = Append(watchPaths, c.configFile)
           /\ watchLate' = Append(watchLate, c.late)
           /\ unwatchCount' = Append(unwatchCount, 0)
           /\ toDispose' = Append(toDispose, Disposable("unwatch", watchId))
           /\ refreshes' = With(refreshes, NewRefresh(uri, 0))
           /\ calls' = With(Without(calls, c),
                            [c EXCEPT !.pc = "exists", !.registration = "ok",
                                      !.refreshed = 1, !.refreshUri = uri])
    /\ out' = Silent
    /\ UNCHANGED <<tasksMap, watchedConfigFileUri, client, fs, serverDisposed, handlers,
                   history>>

\* what watchConfigurationFile gives its caller
Returned(c, result, existsChecked, log) ==
    [op |-> "watchReturn", rootUri |-> c.rootUri, result |-> result,
     registration |-> c.registration, existsChecked |-> existsChecked,
     fileExists |-> fs[c.configFile].exists, missing |-> c.missing, log |-> log]

\* line 87: watchFileChanges rejects; the rejection leaves watchConfigurationFile
WatchFileChangesRejected(c) ==
    /\ nOps < MaxOps
    /\ nOps' = nOps + 1
    /\ c.pc = "watchFileChanges"
    /\ calls' = Without(calls, c)
    /\ out' = Returned([c EXCEPT !.registration = "failed"], "raise", FALSE, <<>>)
    /\ UNCHANGED <<program, fs, service, refreshes, handlers, disposed, regLog>>

\* lines 93-98: exists(configFile) answers
WatchExistsResolved(c) ==
    /\ c.pc = "exists"
    /\ calls' = Without(calls, c)
    /\ out' = IF fs[c.configFile].exists
              THEN Returned(c, "true", TRUE, <<>>)
              ELSE Returned(c, "false", TRUE, <<"warn">>)
    /\ UNCHANGED <<program, fs, service, refreshes, handlers, history>>

\* line 93: exists(configFile) rejects
WatchExistsRejected(c) ==
    /\ nOps < MaxOps
    /\ nOps' = nOps + 1
    /\ c.pc = "exists"
    /\ calls' = Without(calls, c)
    /\ out' = Returned(c, "raise", TRUE, <<>>)
    /\ UNCHANGED <<program, fs, service, refreshes, handlers, disposed, regLog>>

\* ------------------------------------------------- refreshTasks / readTasks
\* line 154: exists(uri) answers; without the file readTasks returns undefined
RefreshExistsResolved(r) ==
    /\ r.pc = "exists"
    /\ refreshes' = With(Without(refreshes, r),
                         IF fs[r.uri].exists
                         THEN [r EXCEPT !.pc = "resolveContent"]
                         ELSE [r EXCEPT !.pc = "return", !.result = NoResult("missing", 0)])
    /\ out' = Silent
    /\ UNCHANGED <<program, fs, service, calls, handlers, history>>

\* a change handler in flight learns that the refresh it started is over
RefreshOver(r) ==
    {IF h.id = r.handler THEN [h EXCEPT !.refreshPending = FALSE] ELSE h : h \in handlers}

\* the promise of readTasks is rejected, not answered
readTasksRejected(result) == result.why = "existsThrows"

\* line 154: exists(uri) rejects outside the try block, so readTasks rejects;
\* refreshTasks is still suspended at its await (line 138)
RefreshExistsRejected(r) ==
    /\ nOps < MaxOps
    /\ nOps' = nOps + 1
    /\ r.pc = "exists"
    /\ refreshes' = With(Without(refreshes, r),
                         [r EXCEPT !.pc = "return", !.result = NoResult("existsThrows", 0)])
    /\ out' = Silent
    /\ UNCHANGED <<program, fs, service, calls, handlers, disposed, regLog>>

\* lines 158-170: resolveContent(uri) answers, the content is parsed
RefreshContentResolved(r) ==
    /\ r.pc = "resolveContent"
    /\ fs[r.uri].exists
    /\ refreshes' = With(Without(refreshes, r),
                         [r EXCEPT !.pc = "return", !.result = parseTasks(fs[r.uri])])
    /\ out' = Silent
    /\ UNCHANGED <<program, fs, service, calls, handlers, history>>

\* lines 158, 171-173: resolveContent(uri) rejects; caught and logged, readTasks
\* returns undefined
RefreshContentRejected(r) ==
    /\ nOps < MaxOps
    /\ nOps' = nOps + 1
    /\ r.pc = "resolveContent"
    /\ refreshes' = With(Without(refreshes, r),
                         [r EXCEPT !.pc = "return", !.result = NoResult("readThrows", 1)])
    /\ out' = Silent
    /\ UNCHANGED <<program, fs, service, calls, handlers, disposed, regLog>>

\* lines 138-150: readTasks has answered or rejected, refreshTasks resumes at
\* its await; a rejection of readTasks, or a throw of the loop, rejects
\* refreshTasks, whose promise no caller awaits or catches
RefreshTasksReturn(r) ==
    /\ r.pc = "return"
    /\ tasksMap' = refreshTasksApply(tasksMap, r.result)
    /\ refreshes' = IF /\ r.result.defined
                        /\ ~refreshTasksThrows(r.result)
                        /\ r.result = parseTasks(fs[r.uri])
                     THEN MarkStale(Without(refreshes, r), r.uri, r.result)
                     ELSE Without(refreshes, r)
    /\ handlers' = RefreshOver(r)
    /\ out' = IF readTasksRejected(r.result)
              THEN [op |-> "unhandledRejection", why |-> "exists"]
              ELSE IF refreshTasksThrows(r.result)
              THEN [op |-> "unhandledRejection", why |-> "label"]
              ELSE [op |-> "refreshTasksReturn", why |-> r.result.why, stale |-> r.stale]
    /\ UNCHANGED <<watchedConfigFileUri, client, toDispose, fs, service, calls, history>>

\* ------------------------------------------------------- change events
\* event.changes.find(change => change.uri === this.watchedConfigFileUri)
findFirst(changes, watched) ==
    IF changes = <<>> THEN <<>> ELSE <<changes[1]>>

find(changes, watched) ==
    LET hits == {i \in 1..Len(changes) : changes[i].uri = watched}
    IN  IF hits = {} THEN <<>>
        ELSE <<changes[CHOOSE i \in hits : \A j \in hits : i <= j]>>

\* what is known of a delivered batch that has no record for the watched path;
\* stale: it names a path that was watched before
Foreign(changes) ==
    [op |-> "foreignBatch",
     stale |-> \E i \in 1..Len(changes) : \E j \in 1..Len(regLog) :
                   changes[i].uri = regLog[j]]

\* lines 50-54 and 124-131: the batch arrives; onDidTaskFileChange runs up to its
\* end (the refresh it starts is not awaited) and the handler suspends at line 54
OnDidFilesChanged(changes) ==
    /\ nOps < MaxOps
    /\ nOps' = nOps + 1
    /\ LET watchedConfigFileChange == find(changes, watchedConfigFileUri)
       IN  IF watchedConfigFileChange = <<>>
           THEN UNCHANGED <<tasksMap, refreshes, handlers>>
           ELSE LET fileChange == watchedConfigFileChange[1]
                    deleted == fileChange.type = DELETED
                    h == [id |-> FreshId(handlers), deleted |-> deleted,
                          refreshPending |-> ~deleted]
                IN  /\ tasksMap' = IF deleted THEN <<>> ELSE tasksMap
                    /\ refreshes' =
                          IF deleted
                          THEN MarkStale(refreshes, watchedConfigFileUri,
                                         parseTasks(fs[watchedConfigFileUri]))
                          ELSE With(refreshes, NewRefresh(watchedConfigFileUri, h.id))
                    /\ handlers' = handlers \cup {h}
    /\ out' = IF \A i \in 1..Len(changes) : changes[i].uri # watchedConfigFileUri
              THEN Foreign(changes) ELSE Silent
    /\ UNCHANGED <<watchedConfigFileUri, client, toDispose, fs, service, calls,
                   disposed, regLog>>

\* lines 51, 59-61: what the try block throws is caught and given to logger.error
catchAndLogNothing(throws) == <<>>

catchAndLog(throws) == IF throws THEN <<"error">> ELSE <<>>

\* lines 55-61: the handler resumes after the await of line 54 and notifies the
\* client, if there is one; what the client throws is caught and logged
OnDidFilesChangedResume(h, throws) ==
    /\ h \in handlers
    /\ handlers' = handlers \ {h}
    /\ refreshes' = IF \E r \in BagToSet(refreshes) : r.handler = h.id
                     THEN LET r == CHOOSE q \in BagToSet(refreshes) : q.handler = h.id
                          IN  With(Without(refreshes, r), [r EXCEPT !.handler = 0])
                     ELSE refreshes
    /\ (client = NoClient => ~throws)
    /\ out' = IF client = NoClient THEN Silent
              ELSE [op |-> "taskConfigurationChanged", event |-> getTaskLabels,
                    deleted |-> h.deleted, refreshPending |-> h.refreshPending,
                    threw |-> throws, log |-> catchAndLog(throws)]
    /\ UNCHANGED <<program, fs, service, calls, history>>

\* ------------------------------------------------------ client, disposal
\* lines 71-73
SetClient(c) ==
    /\ nOps < MaxOps
    /\ nOps' = nOps + 1
    /\ client # c
    /\ client' = c
    /\ out' = Silent
    /\ UNCHANGED <<tasksMap, watchedConfigFileUri, toDispose, fs, service, calls,
                   refreshes, handlers, disposed, regLog>>

\* what one disposable does: lines 47, 65-68, 88-90
runDisposable(d, st) ==
    CASE d.kind = "watcherServer" -> [st EXCEPT !.serverDisposed = TRUE]
      [] d.kind = "clear"         -> [st EXCEPT !.tasksMap = <<>>, !.client = NoClient]
      [] d.kind = "unwatch"       ->
            [st EXCEPT !.unwatchCount[d.watchId] = st.unwatchCount[d.watchId] + 1]

\* DisposableCollection.dispose(): the disposables are taken off the end of the
\* list and disposed until it is empty; on an empty list it does nothing
RECURSIVE disposeAll(_, _)
disposeAll(disposables, st) ==
    IF disposables = <<>> THEN st
    ELSE disposeAll(SubSeq(disposables, 1, Len(disposables) - 1),
                    runDisposable(disposables[Len(disposables)], st))

\* lines 75-77
Dispose ==
    /\ nOps < MaxOps
    /\ nOps' = nOps + 1
    /\ disposed' = TRUE
    /\ LET st == disposeAll(toDispose,
                    [tasksMap |-> tasksMap, client |-> client,
                     unwatchCount |-> unwatchCount, serverDisposed |-> serverDisposed])
       IN  /\ tasksMap' = st.tasksMap
           /\ client' = st.client
           /\ unwatchCount' = st.unwatchCount
           /\ serverDisposed' = st.serverDisposed
    /\ toDispose' = <<>>
    /\ out' = [op |-> "disposeReturn", raised |-> FALSE, again |-> disposed]
    /\ UNCHANGED <<watchedConfigFileUri, fs, watchPaths, watchLate, calls, refreshes,
                   handlers, regLog>>

\* ------------------------------------------------------------ environment
\* the calls in flight for which the config file was not missing all along
RECURSIVE FileSeen(_, _)
FileSeen(bag, path) ==
    IF \E c \in BagToSet(bag) : c.configFile = path /\ c.missing
    THEN LET c == CHOOSE q \in BagToSet(bag) : q.configFile = path /\ q.missing
         IN  FileSeen(With(Without(bag, c), [c EXCEPT !.missing = FALSE]), path)
    ELSE bag

\* the config file of a root is written, replaced or removed
FsChange(path, file) ==
    /\ nOps < MaxOps
    /\ nOps' = nOps + 1
    /\ fs[path] # file
    /\ fs' = [fs EXCEPT ![path] = file]
    /\ calls' = FileSeen(calls, path)
    /\ out' = Silent
    /\ UNCHANGED <<program, service, refreshes, handlers, disposed, regLog>>

Next ==
    \/ \E rootUri \in Roots : WatchConfigurationFile(rootUri)
    \/ \E c \in BagToSet(calls) : WatchFileChangesResolved(c)
    \/ \E c \in BagToSet(calls) : WatchFileChangesRejected(c)
    \/ \E c \in BagToSet(calls) : WatchExistsResolved(c)
    \/ \E c \in BagToSet(calls) : WatchExistsRejected(c)
    \/ \E r \in BagToSet(refreshes) : RefreshExistsResolved(r)
    \/ \E r \in BagToSet(refreshes) : RefreshExistsRejected(r)
    \/ \E r \in BagToSet(refreshes) : RefreshContentResolved(r)
    \/ \E r \in BagToSet(refreshes) : RefreshContentRejected(r)
    \/ \E r \in BagToSet(refreshes) : RefreshTasksReturn(r)
    \/ \E changes \in Batches : OnDidFilesChanged(changes)
    \/ \E h \in handlers, throws \in BOOLEAN : OnDidFilesChangedResume(h, throws)
    \/ SetClient("c1")
    \/ Dispose
    \/ \E path \in Paths, file \in FileStates : FsChange(path, file)

Spec == Init /\ [][Next]_vars

\* ------------------------------------------------- one refresh on its own
\* The component watches r1, holds the tasks of an earlier content of the
\* config file, and a refresh of the present content has just been started
\* (lines 91, 129); nothing else is called while it runs.
PreviousTasks == {<<>>, <<Task("a", "x")>>, <<Task("b", "x"), Task("a", "y")>>}

InitRefresh ==
    /\ \E previous \in PreviousTasks : tasksMap = MapSetAll(<<>>, previous)
    /\ watchedConfigFileUri = getConfigFileUri("r1")
    /\ client = NoClient
    /\ toDispose = <<Disposable("watcherServer", 0), Disposable("clear", 0),
                     Disposable("unwatch", 1)>>
    /\ \E file \in Contents :
          fs = [p \in Paths |-> IF p = getConfigFileUri("r1") THEN file ELSE NoFile]
    /\ watchPaths = <<getConfigFileUri("r1")>>
    /\ watchLate = <<FALSE>>
    /\ unwatchCount = <<0>>
    /\ serverDisposed = FALSE
    /\ calls = EmptyBag
    /\ refreshes = One(NewRefresh(refreshUri(watchedConfigFileUri, watchedConfigFileUri), 0))
    /\ handlers = {}
    /\ nOps = MaxOps - 1             \* one request of the refresh may still fail
    /\ disposed = FALSE
    /\ regLog = <<getConfigFileUri("r1")>>
    /\ out = Silent

NextRefresh ==
    \/ \E r \in BagToSet(refreshes) : RefreshExistsResolved(r)
    \/ \E r \in BagToSet(refreshes) : RefreshExistsRejected(r)
    \/ \E r \in BagToSet(refreshes) : RefreshContentResolved(r)
    \/ \E r \in BagToSet(refreshes) : RefreshContentRejected(r)
    \/ \E r \in BagToSet(refreshes) : RefreshTasksReturn(r)

SpecRefresh == InitRefresh /\ [][NextRefresh]_vars

\* ------------------------------------------------------------- the claims
InFlight(bag) == BagToSet(bag)
Handles == 1..Len(watchPaths)
ActiveWatches == {h \in Handles : unwatchCount[h] = 0}

\* the step is the last one of refresh r: readTasks has answered or rejected
\* and refreshTasks runs to its end
Completes(r) ==
    /\ out'.op \in {"refreshTasksReturn", "unhandledRejection"}
    /\ r.pc = "return"
    /\ \/ refreshes' = Without(refreshes, r)
       \/ refreshes' = MarkStale(Without(refreshes, r), r.uri, r.result)

\* a refresh step that ends refresh r without a parsed task list: readTasks
\* answered undefined (no file, read failure, syntax or shape error) or
\* rejected (the existence check failed)
EndsUnparsed(r) ==
    /\ refreshes' = Without(refreshes, r)
    /\ r.pc = "return"
    /\ ~r.result.defined

\* C1: a refresh that does not end in a successful parse (the file is missing,
\* the read throws, the parser reports an error) leaves the task map as it was,
\* whatever it held: the step that ends the refresh does not change tasksMap.
C1_FailedRefreshKeepsMap ==
    [][(\E r \in InFlight(refreshes) : EndsUnparsed(r)) => tasksMap' = tasksMap]_vars

\* a refresh of syntactically invalid content has just ended on a populated map
C1_Witness ==
    /\ out.op = "refreshTasksReturn"
    /\ out.why = "syntax"
    /\ getTaskLabels # <<>>
    /\ getTask("a") = <<Task("a", "x")>>

\* C2: for a deletion event on the watched path the client is notified with the
\* empty label list, and getTaskLabels() is empty at that moment, whatever
\* refreshes were started earlier.
C2_DeletionNotifiesEmpty ==
    (out.op = "taskConfigurationChanged" /\ out.deleted)
        => (out.event = <<>> /\ getTaskLabels = <<>>)

\* C3: for a create/modify event on the watched path the client is notified
\* after the refresh started for that event has finished.
C3_NotifiedAfterRefresh ==
    (out.op = "taskConfigurationChanged" /\ ~out.deleted) => ~out.refreshPending

\* C4: the instance holds at most one watch registration that has not been
\* unwatched.
C4_AtMostOneWatch == Cardinality(ActiveWatches) <= 1

\* C5: a call of watchConfigurationFile with the root already watched, made
\* after or while the first call for it is suspended in watchFileChanges, asks
\* for no further watch and starts no further refresh: no path is given to
\* watchFileChanges twice in a row, and a call that found its path watched
\* never starts a refresh.
C5_SameRootWatchedOnce ==
    /\ \A i \in 1..(Len(regLog) - 1) : regLog[i] # regLog[i + 1]
    /\ Len(watchPaths) <= Len(regLog)
    /\ \A c \in InFlight(calls) :
          (c.registration = "skipped") => (c.refreshed = 0 /\ c.pc = "exists")

\* two calls for the same root overlap, the first still waiting for its handle
C5_Witness ==
    \E c1, c2 \in InFlight(calls) :
        /\ c1.rootUri = c2.rootUri
        /\ c1.registration = "pending"
        /\ c2.registration = "skipped"
        /\ regLog = <<c1.configFile>>

\* C6: a call of watchConfigurationFile for a path other than the watched one,
\* once its watch is registered, has started exactly one refresh, and that
\* refresh reads the config path of the root given to the call.
C6_RefreshReadsOwnPath ==
    \A c \in InFlight(calls) :
        (c.registration = "ok") => (c.refreshed = 1 /\ c.refreshUri = c.configFile)

\* C7: after dispose(), getTaskLabels() is empty in every later state: also when
\* a refresh was in flight at the disposal or a change event comes afterwards
\* (stated for the behaviours in which no watch is asked for after dispose()).
C7_DisposedStaysEmpty ==
    (/\ disposed
     /\ \A h \in Handles : ~watchLate[h]
     /\ \A c \in InFlight(calls) : ~c.late)
        => getTaskLabels = <<>>

\* C8: no handle is unwatched twice, and a handle that a call made before
\* dispose() obtained is not left registered once dispose() has been called and
\* the call is over.
C8_EveryHandleUnwatchedOnce ==
    /\ \A h \in Handles : unwatchCount[h] <= 1
    /\ (disposed /\ calls = EmptyBag)
          => \A h \in Handles : ~watchLate[h] => unwatchCount[h] = 1

\* C9: watchConfigurationFile answers whether the config file exists, also when
\* watchFileChanges failed: a failed registration still leads to the existence
\* check and to its boolean.
C9_ExistsAnswerWhateverRegistration ==
    out.op = "watchReturn" =>
        /\ (out.registration = "failed") => (out.existsChecked /\ out.result # "raise")
        /\ (out.result # "raise")
              => (out.result = IF out.fileExists THEN "true" ELSE "false")

\* C10: a call of watchConfigurationFile that returns for a root whose config
\* file does not exist returns false with a warning logged, and the task map is
\* empty once the call and the refresh it started are over (the watch was
\* registered, no other call is in flight, the root is still the watched one),
\* also when another root with a populated map was watched before.
C10_MissingFileLeavesMapEmpty ==
    (out.op = "watchReturn" /\ out.missing /\ out.result # "raise") =>
        /\ out.result = "false"
        /\ out.log = <<"warn">>
        /\ (/\ out.registration = "ok"
            /\ refreshes = EmptyBag
            /\ calls = EmptyBag
            /\ watchedConfigFileUri = getConfigFileUri(out.rootUri))
              => getTaskLabels = <<>>

\* C11: what the client callback throws while a change event is handled is
\* caught and logged inside the handler: the step in which a handler notifies
\* the client ends the handler, logs one error when the callback threw, and
\* leaves the task map, the watched path, the client, the disposables and the
\* watch registrations as they were, so that later batches meet the same
\* handler.  (The failures of the refresh the handler started and did not
\* await are the subject of C16.)
C11_HandlerCatchesAndLogs ==
    [][\A h \in handlers :
          (handlers' = handlers \ {h}) =>
              /\ UNCHANGED <<program, service>>
              /\ out'.op \in {"none", "taskConfigurationChanged"}
              /\ (out'.op = "taskConfigurationChanged" /\ out'.threw)
                    => out'.log = <<"error">>]_vars

\* the client callback has just thrown in a handler of an event for the watched
\* path, with the watch registered
C11_Witness ==
    /\ out.op = "taskConfigurationChanged"
    /\ out.threw
    /\ out.log = <<"error">>
    /\ ActiveWatches # {}
    /\ watchPaths[Len(watchPaths)] = watchedConfigFileUri

\* C12: a delivered batch in which no record's path is the watched path has no
\* effect: the task map, the watched path, the client, the disposables, the
\* watch registrations, the calls and refreshes in flight and the handlers in
\* flight are as before (no refresh is started, no handler stays to notify the
\* client); also when the batch names a path that was watched before a root
\* switch.
C12_ForeignBatchIgnored ==
    [][(out'.op = "foreignBatch")
          => UNCHANGED <<program, service, calls, refreshes, handlers>>]_vars

\* a batch for the path watched before the switch has just been delivered, on
\* a populated map
C12_Witness ==
    /\ out.op = "foreignBatch"
    /\ out.stale
    /\ Len(regLog) = 2
    /\ watchedConfigFileUri = regLog[2]
    /\ getTaskLabels # <<>>

\* the places of the tasks whose label no earlier task has
FirstPlaces(tasks) ==
    {i \in 1..Len(tasks) : \A j \in 1..(i - 1) : LabelOf(tasks[j]) # LabelOf(tasks[i])}

\* the tasks at those places, in the order of the places
FirstOccurrences(tasks) ==
    LET K == FirstPlaces(tasks)
    IN  [k \in 1..Cardinality(K) |->
            tasks[CHOOSE i \in K : Cardinality({j \in K : j <= i}) = k]]

\* the file a refresh on its own reads
RefreshedFile == fs[getConfigFileUri("r1")]

\* the contents whose "tasks" is a sequence of objects
TaskFiles == {f \in ArrayFiles : \A i \in 1..Len(f.value.items) : f.value.items[i] # Null}

\* C13: for every task sequence filterDuplicates returns the first occurrence of
\* each label, in the original order, and logs one error per task it drops;
\* labels [a,b,a] give [a,b] and one error.  Stated on what readTasks returns
\* for a file whose "tasks" array is the sequence; the undefined label of an
\* object without label is a label of its own, other than every string.
C13_FirstOccurrenceWins ==
    /\ \A r \in InFlight(refreshes) :
          (r.pc = "return" /\ r.result.defined /\ RefreshedFile \in TaskFiles)
             => LET tasks == RefreshedFile.value.items
                IN  /\ r.result.tasks = FirstOccurrences(tasks)
                    /\ r.result.errors = Len(tasks) - Len(r.result.tasks)
    /\ filterDuplicates(<<Task("a", "x"), Task("b", "x"), Task("a", "y")>>)
          = [tasks |-> <<Task("a", "x"), Task("b", "x")>>, errors |-> 1, thrown |-> FALSE]

\* readTasks has returned for the tasks a/x, b/x, a/y
C13_Witness ==
    \E r \in InFlight(refreshes) :
        /\ r.pc = "return"
        /\ RefreshedFile = TasksFile(<<Task("a", "x"), Task("b", "x"), Task("a", "y")>>)
        /\ r.result.tasks = <<Task("a", "x"), Task("b", "x")>>
        /\ r.result.errors = 1

\* the labels of a task sequence, in its order
LabelsOf(tasks) == [k \in 1..Len(tasks) |-> LabelOf(tasks[k])]

\* C14: the step that completes a refresh which parsed an array of objects replaces the
\* map wholesale: afterwards getTaskLabels() is the labels of the
\* duplicate-filtered tasks of the content, in their order (no label of the
\* previous map stays unless the content has it), getTask(l) is the unmodified
\* first task of the content with label l, and absent for every other label.
C14_ParsedRefreshReplacesMap ==
    [][\A r \in InFlight(refreshes) :
          (/\ Completes(r)
           /\ r.result.defined
           /\ RefreshedFile \in TaskFiles)
              => LET kept == FirstOccurrences(RefreshedFile.value.items)
                 IN  /\ out'.op = "refreshTasksReturn"
                     /\ getTaskLabelsOf(tasksMap') = LabelsOf(kept)
                     /\ \A k \in 1..Len(kept) :
                           ("label" \in DOMAIN kept[k])
                              => getTaskOf(tasksMap', kept[k].label) = <<kept[k]>>
                     /\ \A l \in (Labels \cup {"undefined", "c"}) :
                           (\A k \in 1..Len(kept) : LabelOf(kept[k]) # Label(l))
                              => getTaskOf(tasksMap', l) = <<>>]_vars

\* a refresh of the tasks b/y, a/y, b/x has just completed
C14_Witness ==
    /\ out.op = "refreshTasksReturn"
    /\ out.why = "parsed"
    /\ RefreshedFile = TasksFile(<<Task("b", "y"), Task("a", "y"), Task("b", "x")>>)
    /\ getTaskLabels = <<Label("b"), Label("a")>>
    /\ getTask("b") = <<Task("b", "y")>>
    /\ getTask("c") = <<>>

\* C15: when the content parses without syntax errors but has no sequence of
\* task objects at "tasks" (absent, null, a number, an object, a string, an
\* array with a null element), the refresh does not crash, logs an error, and
\* the step that completes it leaves the task map as it was.
C15_ShapeErrorKeepsMap ==
    [][\A r \in InFlight(refreshes) :
          (/\ Completes(r)
           /\ r.result.why \in {"shape", "parsed"}
           /\ RefreshedFile \in (ShapeFiles \cup (ArrayFiles \ TaskFiles)))
              => /\ tasksMap' = tasksMap
                 /\ r.result.errors >= 1
                 /\ out'.op = "refreshTasksReturn"]_vars

\* C16: an I/O failure during a refresh, of the existence check or of the read,
\* is caught and logged and never leaves the refresh as an unhandled failure,
\* whether an event or watchConfigurationFile started the refresh (that the map
\* is kept is C1).
C16_IOFailureRecovered ==
    /\ out.op # "unhandledRejection"
    /\ \A r \in InFlight(refreshes) :
          (r.result.why \in {"readThrows", "existsThrows"})
             => (r.pc = "return" /\ r.result.errors = 1 /\ ~readTasksRejected(r.result))

\* the map that holds exactly the given tasks, in their order
WholeMap(tasks) == [k \in 1..Len(tasks) |-> <<LabelOf(tasks[k]), tasks[k]>>]

\* the maps of the contents that parse with a task sequence
WholeMaps ==
    {WholeMap(FirstOccurrences(file.value.items)) :
        file \in {f \in FileStates : f.exists /\ f.errors = 0}}

\* C17: whatever way overlapping refreshes interleave, the map is never seen
\* partially replaced or mixed from two refreshes: after every step it is
\* empty or holds the complete duplicate-filtered tasks of one parsed content,
\* and the step that completes a refresh with a parsed result leaves exactly
\* the tasks of that refresh, so that the refresh completing last decides.
C17_MapAlwaysWhole ==
    [][/\ tasksMap' \in (WholeMaps \cup {<<>>})
       /\ \A r \in InFlight(refreshes) :
             (Completes(r) /\ r.result.defined)
                => tasksMap' = WholeMap(r.result.tasks)]_vars

\* two refreshes overlapped on different contents: one has just completed and
\* left its two tasks, the other has read the older content and not completed
C17_Witness ==
    /\ out.op = "refreshTasksReturn"
    /\ out.why = "parsed"
    /\ tasksMap = WholeMap(<<Task("b", "x"), Task("a", "y")>>)
    /\ \E r \in InFlight(refreshes) :
          r.pc = "return" /\ r.result.tasks = <<Task("a", "x")>>

\* C18: the map follows the watched file's last successfully parsed content: a
\* refresh that holds tasks which are not the file's present content, and that
\* is the last one to complete after a deletion of the file was handled or
\* after a refresh of the present content completed, leaves the map as it is
\* (empty after the deletion, the newer tasks otherwise).
C18_LateRefreshKeepsNewer ==
    [][\A r \in InFlight(refreshes) :
          (/\ Completes(r)
           /\ refreshes = One(r)
           /\ r.stale
           /\ r.uri = watchedConfigFileUri
           /\ r.result # parseTasks(fs[r.uri]))
              => tasksMap' = tasksMap]_vars

\* C19: whenever the watched-path slot holds a path, no watchConfigurationFile
\* call is in flight and dispose() has not been called, a watch registered for
\* that path is active; so a registration that failed does not leave its path
\* in the slot.
C19_SlotMeansWatched ==
    (/\ watchedConfigFileUri # Undefined
     /\ calls = EmptyBag
     /\ ~disposed)
        => \E h \in ActiveWatches : watchPaths[h] = watchedConfigFileUri

\* C20: the map only takes tasks parsed from the watched path: a refresh that
\* reads the config file of a root watched before, and completes after
\* watchConfigurationFile has switched the slot to another root, installs
\* nothing.
C20_OldRootRefreshInstallsNothing ==
    [][\A r \in InFlight(refreshes) :
          (Completes(r) /\ r.uri # watchedConfigFileUri) => tasksMap' = tasksMap]_vars

====
